---- MODULE Spec2Model ----
(***************************************************************************)
(* Model of app_deploy.py: the Streamlit script of the Government Document *)
(* Processor.  A text is a sequence of atoms (TLA+ strings): one character *)
(* each, except that a literal of the source which holds no whitespace at  *)
(* its ends and is never taken apart is kept as one atom.                  *)
(***************************************************************************)
EXTENDS Integers, Sequences, FiniteSets, TLC

VARIABLES API_KEY, phase, uploads, run, presses, remoteCalls, call

vars == <<API_KEY, phase, uploads, run, presses, remoteCalls, call>>

(* ------------------------------ bounds --------------------------------- *)

\* Button presses in one behaviour.
MaxPresses == 2
\* Pages of a PDF handed to extract_text_from_pdf.
MaxPages == 2
\* Characters of one page's text layer.
MaxTextLen == 2

SeqsUpTo(S, n) == UNION {[1..k -> S] : k \in 0..n}

(* --------------------------- Python strings ---------------------------- *)

\* str.strip() with no argument removes whitespace at both ends.
IsSpace(c) == c \in {" ", "\n"}

RECURSIVE LStrip(_)
LStrip(s) == IF s # <<>> /\ IsSpace(Head(s)) THEN LStrip(Tail(s)) ELSE s

RECURSIVE RStrip(_)
RStrip(s) ==
    IF s # <<>> /\ IsSpace(s[Len(s)]) THEN RStrip(SubSeq(s, 1, Len(s) - 1)) ELSE s

Strip(s) == RStrip(LStrip(s))

\* An exception a library call may raise, with str(e).
NoExc == [raised |-> FALSE, msg |-> <<>>]
Raise(m) == [raised |-> TRUE, msg |-> m]

(* ------------------------ extract_text_from_pdf ------------------------ *)

ScannedPlaceholder == "[Scanned page - OCR not available in cloud deployment]"
ImagePlaceholder ==
    "[Image uploaded - OCR processing not available in cloud deployment. Please provide text input instead.]"

PdfNames == {"doc.pdf"}
ImageNames == {"scan.png"}
Names == PdfNames \cup ImageNames

\* file_path.lower().endswith(".pdf")
EndsWithPdf(file_path) == file_path \in PdfNames

\* One page as page.extract_text() answers: a text (<<>> for None or "",
\* a page without a text layer) or an exception.
PageText(t) == [raised |-> FALSE, msg |-> <<>>, text |-> t]
PageRaise(m) == [raised |-> TRUE, msg |-> m, text |-> <<>>]

\* The loop without its else branch: a page without a text layer adds nothing
\* but the newline.
PageContributionNoPlaceholder(p) == p.text \o <<"\n">>

\* Lines 39-44: what one page adds to text.
PageContribution(p) ==
    IF p.text # <<>> THEN p.text \o <<"\n">> ELSE <<ScannedPlaceholder, "\n">>

\* The loop putting each page before the text so far.
RECURSIVE PdfLoopPrepending(_, _)
PdfLoopPrepending(pages, text) ==
    IF pages = <<>> THEN [raised |-> FALSE, msg |-> <<>>, text |-> text]
    ELSE IF Head(pages).raised
         THEN [raised |-> TRUE, msg |-> Head(pages).msg, text |-> text]
         ELSE PdfLoopPrepending(Tail(pages), PageContribution(Head(pages)) \o text)

\* Lines 38-44: the loop over pdf.pages, from the text accumulated so far.
RECURSIVE PdfLoop(_, _)
PdfLoop(pages, text) ==
    IF pages = <<>> THEN [raised |-> FALSE, msg |-> <<>>, text |-> text]
    ELSE IF Head(pages).raised
         THEN [raised |-> TRUE, msg |-> Head(pages).msg, text |-> text]
         ELSE PdfLoop(Tail(pages), text \o PageContribution(Head(pages)))

\* The function with except branches that pass: the text read before the
\* exception is returned.
extract_text_from_pdf_pass(file_path, lib) ==
    IF EndsWithPdf(file_path)
    THEN IF lib.open.raised THEN <<>> ELSE Strip(PdfLoop(lib.pages, <<>>).text)
    ELSE IF lib.open.raised THEN <<>> ELSE Strip(<<ImagePlaceholder>>)

\* lib is what the libraries answer for the file at file_path:
\* lib.open the outcome of pdfplumber.open / Image.open, lib.pages the pages.
extract_text_from_pdf(file_path, lib) ==
    IF EndsWithPdf(file_path)
    THEN IF lib.open.raised
         THEN Strip(<<"Error reading PDF:", " ">> \o lib.open.msg)
         ELSE LET r == PdfLoop(lib.pages, <<>>)
              IN  IF r.raised
                  THEN Strip(<<"Error reading PDF:", " ">> \o r.msg)
                  ELSE Strip(r.text)
    ELSE IF lib.open.raised
         THEN Strip(<<"Error reading image:", " ">> \o lib.open.msg)
         ELSE Strip(<<ImagePlaceholder>>)

(* -------------------------------- json --------------------------------- *)

\* A JSON value: a string or an object (members in order, as a dict keeps them).
JStr(s) == [t |-> "str", s |-> s, m |-> <<>>]
JObj(m) == [t |-> "obj", s |-> <<>>, m |-> m]
Member(k, v) == [k |-> k, v |-> v]

\* json.dumps escapes the quote, the backslash and control characters in a string.
EscapeChar(c) ==
    IF c = "\"" THEN "\\\"" ELSE IF c = "\n" THEN "\\n" ELSE c

UnescapeChar(c) ==
    IF c = "\\\"" THEN "\"" ELSE IF c = "\\n" THEN "\n" ELSE c

DumpString(s) == <<"\"">> \o [i \in 1..Len(s) |-> EscapeChar(s[i])] \o <<"\"">>

RECURSIVE JsonDumps(_)
RECURSIVE DumpMembers(_)
JsonDumps(v) ==
    IF v.t = "str" THEN DumpString(v.s) ELSE <<"{">> \o DumpMembers(v.m) \o <<"}">>

DumpMembers(m) ==
    IF m = <<>> THEN <<>>
    ELSE DumpString(m[1].k) \o <<":", " ">> \o JsonDumps(m[1].v)
         \o (IF Len(m) > 1 THEN <<",", " ">> \o DumpMembers(Tail(m)) ELSE <<>>)

\* The decoder: [ok, val, rest] after one value at the head of s.
ParseFail == [ok |-> FALSE, val |-> JStr(<<>>), rest |-> <<>>]

\* The characters of a string literal, s starting after the opening quote.
\* A raw control character inside a string is rejected (strict mode).
RECURSIVE ParseChars(_, _)
ParseChars(s, acc) ==
    IF s = <<>> \/ Head(s) = "\n" THEN ParseFail
    ELSE IF Head(s) = "\"" THEN [ok |-> TRUE, val |-> JStr(acc), rest |-> Tail(s)]
    ELSE ParseChars(Tail(s), Append(acc, UnescapeChar(Head(s))))

RECURSIVE ParseValue(_)
RECURSIVE ParseMembers(_, _)
ParseValue(s0) ==
    LET s == LStrip(s0)
    IN  IF s = <<>> THEN ParseFail
        ELSE IF Head(s) = "\"" THEN ParseChars(Tail(s), <<>>)
        ELSE IF Head(s) = "{"
             THEN LET b == LStrip(Tail(s))
                  IN  IF b # <<>> /\ Head(b) = "}"
                      THEN [ok |-> TRUE, val |-> JObj(<<>>), rest |-> Tail(b)]
                      ELSE ParseMembers(b, <<>>)
        ELSE ParseFail

\* member ("," member)* "}" with s at the first member's key.
ParseMembers(s, acc) ==
    IF s = <<>> \/ Head(s) # "\"" THEN ParseFail
    ELSE LET k == ParseChars(Tail(s), <<>>)
             c == LStrip(k.rest)
         IN  IF ~k.ok \/ c = <<>> \/ Head(c) # ":" THEN ParseFail
             ELSE LET v == ParseValue(Tail(c))
                      e == LStrip(v.rest)
                      m == Append(acc, Member(k.val.s, v.val))
                  IN  IF ~v.ok \/ e = <<>> THEN ParseFail
                      ELSE IF Head(e) = "}"
                           THEN [ok |-> TRUE, val |-> JObj(m), rest |-> Tail(e)]
                      ELSE IF Head(e) = ","
                           THEN ParseMembers(LStrip(Tail(e)), m)
                      ELSE ParseFail

\* json.loads: [ok |-> FALSE] stands for the ValueError it raises.
JsonLoads(text) ==
    LET r == ParseValue(text)
    IN  IF r.ok /\ LStrip(r.rest) = <<>>
        THEN [ok |-> TRUE, val |-> r.val]
        ELSE [ok |-> FALSE, val |-> JStr(<<>>)]

(* ----------------------- extract_json_from_text ------------------------ *)

\* Lines 105-113: the object the except branch serialises.
ErrorObject(msg) ==
    JObj(<<
        Member(<<"type">>, JStr(<<"object">>)),
        Member(<<"properties">>, JObj(<<
            Member(<<"document_type">>, JStr(<<"error">>)),
            Member(<<"extracted_data">>,
                   JObj(<<Member(<<"error">>, JStr(<<"API Error:", " ">> \o msg))>>))
        >>)),
        Member(<<"compliance_status">>, JStr(<<"Error occurred during processing">>)),
        Member(<<"name">>, JStr(<<"response">>))
    >>)

\* api is what the remote library does in this call: api.ctor the outcome of
\* genai.GenerativeModel(MODEL_NAME), api.gen of model.generate_content,
\* api.read of response.text, api.text the text of the response.
\* The answer: raised (an exception leaves the function), value (the string
\* returned), calls (requests sent to the remote model), sent (the text sent).
extract_json_from_text(extracted_text, api) ==
    IF api.ctor.raised
    THEN [raised |-> TRUE, value |-> <<>>, calls |-> 0, sent |-> <<>>]
    ELSE IF api.gen.raised
    THEN [raised |-> FALSE, value |-> JsonDumps(ErrorObject(api.gen.msg)),
          calls |-> 1, sent |-> extracted_text]
    ELSE IF api.read.raised
    THEN [raised |-> FALSE, value |-> JsonDumps(ErrorObject(api.read.msg)),
          calls |-> 1, sent |-> extracted_text]
    ELSE [raised |-> FALSE, value |-> Strip(api.text),
          calls |-> 1, sent |-> extracted_text]

(* --------------------------- the environment --------------------------- *)

\* os.getenv("GEMINI_API_KEY", None): unset, set to the empty string, or set.
KeyUnset == "<None>"
KeyValues == {KeyUnset, "", "key"}

\* str(e) of the exceptions the libraries raise.
ErrMsgs == {<<>>, <<"timeout">>, <<"bad", " ", "\"", "key", "\"", "\n">>}

\* Contents of an uploaded file, and the two things a directory entry can be
\* besides a content: missing, or cut short by a write that failed.
Data == {"d1", "d2"}
Absent == "absent"
Partial == "partial"

\* uploaded_file.type, as the uploader derives it from the name.
FileType(name) == IF name \in PdfNames THEN "application/pdf" ELSE "image/png"
NoFile == [name |-> "", type |-> "", data |-> ""]
Files == {[name |-> n, type |-> FileType(n), data |-> d] : n \in Names, d \in Data}

\* How lines 128-131 can end: written; makedirs or open raises (nothing
\* changes); write raises after open truncated the file.
FsOutcomes == {"ok", "fail_before", "fail_partial"}

Chars == {"a", "b", " "}
PageOutcomes ==
    {PageText(t) : t \in SeqsUpTo(Chars, MaxTextLen)} \cup {PageRaise(m) : m \in ErrMsgs}
OpenOutcomes == {NoExc} \cup {Raise(m) : m \in ErrMsgs}
NoLib == [open |-> NoExc, pages |-> <<>>]

\* What the libraries answer for a file, for extract_text_from_pdf alone.
ExtractLibs(file_path) ==
    {[open |-> o, pages |-> ps] :
        o \in OpenOutcomes,
        ps \in IF EndsWithPdf(file_path) THEN SeqsUpTo(PageOutcomes, MaxPages) ELSE {<<>>}}

\* The documents the button handler is run on.
SamplePages ==
    { <<>>,
      <<PageText(<<"a">>)>>,
      <<PageText(<<" ">>)>>,
      <<PageText(<<" ", "a">>), PageText(<<>>)>>,
      <<PageText(<<"a">>), PageRaise(<<"timeout">>)>> }
HandlerLibs(file_path) ==
    {[open |-> Raise(m), pages |-> <<>>] : m \in ErrMsgs \ {<<"timeout">>}}
    \cup {[open |-> NoExc, pages |-> ps] :
            ps \in IF EndsWithPdf(file_path) THEN SamplePages ELSE {<<>>}}

\* The text area's content.
TextInputs == {<<>>, <<" ">>, <<" ", "b", "\n">>}

\* Texts the remote model answers with.
ResponseTexts ==
    { <<"{", "\"", "document_type", "\"", ":", " ", "\"", "text", "\"", "}">>,
      <<"\n", "{", "}", " ">>,
      <<"~~~json", "\n", "{", "}", "\n", "~~~">>,
      <<>> }
NoApi == [ctor |-> NoExc, gen |-> NoExc, read |-> NoExc, text |-> <<>>]
ApiOutcomes ==
    {[NoApi EXCEPT !.ctor = Raise(<<"timeout">>)]}
    \cup {[NoApi EXCEPT !.gen = Raise(m)] : m \in ErrMsgs \ {<<>>}}
    \cup {[NoApi EXCEPT !.read = Raise(<<"timeout">>)]}
    \cup {[NoApi EXCEPT !.text = t] : t \in ResponseTexts}

(* ------------------------------ the script ----------------------------- *)

\* Line 17: not API_KEY.
KeyMissing(key) == key = KeyUnset \/ key = ""

\* The write refusing a name the directory already holds.
WriteUploadKeepExisting(dir, file, fs) ==
    IF dir[file.name] # Absent THEN dir
    ELSE IF fs = "ok" THEN [dir EXCEPT ![file.name] = file.data]
    ELSE IF fs = "fail_partial" THEN [dir EXCEPT ![file.name] = Partial]
    ELSE dir

\* Lines 128-131: the upload directory after the write, fs its outcome.
WriteUpload(dir, file, fs) ==
    IF fs = "ok" THEN [dir EXCEPT ![file.name] = file.data]
    ELSE IF fs = "fail_partial" THEN [dir EXCEPT ![file.name] = Partial]
    ELSE dir

\* Lines 133-136: the text of an uploaded file; ran tells whether
\* extract_text_from_pdf was called.
FileText(file, lib) ==
    IF file.type = "application/pdf"
    THEN [ran |-> TRUE, text |-> extract_text_from_pdf(file.name, lib)]
    ELSE IF file.type \in {"image/png", "image/jpeg"}
    THEN [ran |-> TRUE, text |-> extract_text_from_pdf(file.name, lib)]
    ELSE [ran |-> FALSE, text |-> <<>>]

\* Line 138 testing text_input instead of text_input.strip().
AcquireTextUnstripped(text_input, has_file, file, lib) ==
    IF has_file THEN FileText(file, lib)
    ELSE IF text_input # <<>>
    THEN [ran |-> FALSE, text |-> text_input]
    ELSE [ran |-> FALSE, text |-> <<>>]

\* Lines 127 and 138 in the other order: the text input wins over the file.
AcquireTextPreferText(text_input, has_file, file, lib) ==
    IF Strip(text_input) # <<>>
    THEN [ran |-> FALSE, text |-> Strip(text_input)]
    ELSE IF has_file THEN FileText(file, lib)
    ELSE [ran |-> FALSE, text |-> <<>>]

\* Lines 125-139: extracted_text, once the write (if any) has succeeded.
AcquireText(text_input, has_file, file, lib) ==
    IF has_file THEN FileText(file, lib)
    ELSE IF Strip(text_input) # <<>>
    THEN [ran |-> FALSE, text |-> Strip(text_input)]
    ELSE [ran |-> FALSE, text |-> <<>>]

NoDisplay == [json |-> FALSE, val |-> JStr(<<>>), text |-> FALSE, raw |-> <<>>]

\* Lines 149-152 without the except branch: nothing is shown for a string
\* that does not decode.
DisplayNoFallback(json_result) ==
    LET d == JsonLoads(json_result)
    IN  IF d.ok
        THEN [json |-> TRUE, val |-> d.val, text |-> FALSE, raw |-> <<>>]
        ELSE NoDisplay

\* Lines 149-152: st.json of the decoded result, or st.text of the string.
Display(json_result) ==
    LET d == JsonLoads(json_result)
    IN  IF d.ok
        THEN [json |-> TRUE, val |-> d.val, text |-> FALSE, raw |-> <<>>]
        ELSE [json |-> FALSE, val |-> JStr(<<>>), text |-> TRUE, raw |-> json_result]

NoAnswer == [raised |-> FALSE, value |-> <<>>, calls |-> 0, sent |-> <<>>]

\* What one script run has done.  crashed names the call whose exception
\* left the script uncaught ("none" when the run reached the end).
NoRun ==
    [pressed |-> FALSE, text_input |-> <<>>, has_file |-> FALSE, file |-> NoFile,
     fs |-> "ok", lib |-> NoLib, api |-> NoApi,
     extract_ran |-> FALSE, extracted_text |-> <<>>, preview |-> FALSE,
     invoked |-> FALSE, arg |-> <<>>, answer |-> NoAnswer,
     shown |-> NoDisplay, warning |-> FALSE, crashed |-> "none"]

\* Lines 124-154: the run of the script with the button pressed.
ButtonHandler(text_input, has_file, file, fs, lib, api) ==
    LET base == [NoRun EXCEPT !.pressed = TRUE, !.text_input = text_input,
                              !.has_file = has_file, !.file = file, !.fs = fs,
                              !.lib = lib, !.api = api]
    IN  IF has_file /\ fs # "ok"
        THEN [base EXCEPT !.crashed = "write"]
        ELSE LET got == AcquireText(text_input, has_file, file, lib)
                 r1  == [base EXCEPT !.extract_ran = got.ran,
                                     !.extracted_text = got.text]
             IN  IF got.text = <<>>
                 THEN [r1 EXCEPT !.warning = TRUE]
                 ELSE LET ans == extract_json_from_text(got.text, api)
                          r2  == [r1 EXCEPT !.preview = TRUE, !.invoked = TRUE,
                                            !.arg = got.text, !.answer = ans]
                      IN  IF ans.raised
                          THEN [r2 EXCEPT !.crashed = "model"]
                          ELSE [r2 EXCEPT !.shown = Display(ans.value)]

\* Whether the handler reaches the calls that consume lib and api.
ReadsFile(has_file, fs) == has_file /\ fs = "ok"
CallsModel(text_input, has_file, file, fs, lib) ==
    /\ ~(has_file /\ fs # "ok")
    /\ AcquireText(text_input, has_file, file, lib).text # <<>>

(* ------------------------------- actions ------------------------------- *)

NoCall == [file_path |-> "", lib |-> NoLib, done |-> FALSE, result |-> <<>>]

Init ==
    /\ API_KEY \in KeyValues
    /\ phase = "boot"
    /\ uploads = [n \in Names |-> Absent]
    /\ run = NoRun
    /\ presses = 0
    /\ remoteCalls = 0
    /\ call = NoCall

\* Lines 16-21 and 116-122 on the first run of the script: st.stop() ends
\* every run before the widgets exist, or the page is rendered.
Startup ==
    /\ phase = "boot"
    /\ phase' = IF KeyMissing(API_KEY) THEN "halted" ELSE "ready"
    /\ UNCHANGED <<API_KEY, uploads, run, presses, remoteCalls, call>>

\* A press of the button: the script runs again from the top, line 17 passes
\* again, and lines 124-154 run to the end or to an uncaught exception.
\* uploaded_file is NoFile when the uploader holds nothing.
Press(text_input, uploaded_file, fs, lib, api) ==
    /\ phase = "ready"
    /\ ~KeyMissing(API_KEY)
    /\ presses < MaxPresses
    /\ run' = ButtonHandler(text_input, uploaded_file # NoFile, uploaded_file, fs, lib, api)
    /\ uploads' = IF uploaded_file # NoFile
                  THEN WriteUpload(uploads, uploaded_file, fs)
                  ELSE uploads
    /\ remoteCalls' = remoteCalls + run'.answer.calls
    /\ presses' = presses + 1
    /\ UNCHANGED <<API_KEY, phase, call>>

\* The environment's answers are drawn only for the calls the handler makes.
Next ==
    \/ Startup
    \/ \E text_input \in TextInputs, uploaded_file \in Files \cup {NoFile} :
         \E fs \in IF uploaded_file # NoFile THEN FsOutcomes ELSE {"ok"} :
           \E lib \in IF ReadsFile(uploaded_file # NoFile, fs)
                      THEN HandlerLibs(uploaded_file.name) ELSE {NoLib} :
             \E api \in IF CallsModel(text_input, uploaded_file # NoFile,
                                      uploaded_file, fs, lib)
                        THEN ApiOutcomes ELSE {NoApi} :
                Press(text_input, uploaded_file, fs, lib, api)

Spec == Init /\ [][Next]_vars

\* extract_text_from_pdf on its own: one call per behaviour, the file and the
\* libraries' answers drawn in the initial state.
ExtractInit ==
    /\ API_KEY = "key"
    /\ phase = "ready"
    /\ uploads = [n \in Names |-> Absent]
    /\ run = NoRun
    /\ presses = 0
    /\ remoteCalls = 0
    /\ \E file_path \in Names :
         \E lib \in ExtractLibs(file_path) :
            /\ (lib.open.raised => lib.pages = <<>>)
            /\ call = [file_path |-> file_path, lib |-> lib, done |-> FALSE,
                       result |-> <<>>]

ExtractCall ==
    /\ ~call.done
    /\ call' = [call EXCEPT !.done = TRUE,
                            !.result = extract_text_from_pdf(call.file_path, call.lib)]
    /\ UNCHANGED <<API_KEY, phase, uploads, run, presses, remoteCalls>>

ExtractNext == ExtractCall

ExtractSpec == ExtractInit /\ [][ExtractNext]_vars

(* ------------------------- notions of the claims ----------------------- *)

\* t is full without the whitespace at its two ends.
IsTrimOf(t, full) ==
    \E i \in 1..(Len(full) + 1) :
      \E j \in (i - 1)..Len(full) :
        /\ t = SubSeq(full, i, j)
        /\ \A k \in 1..(i - 1) : IsSpace(full[k])
        /\ \A k \in (j + 1)..Len(full) : IsSpace(full[k])
        /\ (i <= j => ~IsSpace(full[i]) /\ ~IsSpace(full[j]))

\* The texts of ts in order, a newline between neighbours.
RECURSIVE JoinNewline(_)
JoinNewline(ts) ==
    IF ts = <<>> THEN <<>>
    ELSE IF Len(ts) = 1 THEN ts[1]
    ELSE ts[1] \o <<"\n">> \o JoinNewline(Tail(ts))

\* What each page stands for in the result: its text, or the placeholder.
PageTexts(pages) ==
    [i \in 1..Len(pages) |->
        IF pages[i].text = <<>> THEN <<ScannedPlaceholder>> ELSE pages[i].text]

ReadOk(lib) == ~lib.open.raised /\ \A i \in 1..Len(lib.pages) : ~lib.pages[i].raised
Scanned(lib) == Len(lib.pages) >= 1 /\ \A i \in 1..Len(lib.pages) : lib.pages[i].text = <<>>

\* The member of a decoded object under key (a string "<missing>" without it).
Get(obj, key) ==
    IF obj.t = "obj" /\ \E i \in 1..Len(obj.m) : obj.m[i].k = key
    THEN obj.m[CHOOSE i \in 1..Len(obj.m) : obj.m[i].k = key].v
    ELSE JStr(<<"<missing>">>)

ApiFailed(api) == api.ctor.raised \/ api.gen.raised \/ api.read.raised

(* -------------------------------- claims ------------------------------- *)

\* C1: whenever extract_json_from_text is called and any step of talking to
\* the remote model raises (constructing the model handle, generate_content,
\* reading response.text), no exception leaves the function and the string
\* returned decodes as JSON whose document_type is "error".
C1_RemoteErrorBecomesJson ==
    (run.invoked /\ ApiFailed(run.api)) =>
        /\ ~run.answer.raised
        /\ JsonLoads(run.answer.value).ok
        /\ Get(Get(JsonLoads(run.answer.value).val, <<"properties">>),
               <<"document_type">>) = JStr(<<"error">>)

\* C2 as stated: for a PDF read without error, the result is exactly the page
\* texts (the placeholder for a page without a text layer) in page order with
\* a newline between them.
C2_ExactConcatenation ==
    (call.done /\ EndsWithPdf(call.file_path) /\ ReadOk(call.lib)) =>
        call.result = JoinNewline(PageTexts(call.lib.pages))

\* C2, amended: for a PDF read without error, the result is the page texts
\* (the placeholder for a page without a text layer) in page order with a
\* newline between them, less the whitespace at the two ends of the whole.
C2_TrimmedConcatenation ==
    (call.done /\ EndsWithPdf(call.file_path) /\ ReadOk(call.lib)) =>
        IsTrimOf(call.result, JoinNewline(PageTexts(call.lib.pages)))

\* A page without a text layer first, then a page whose text ends in a blank.
C2_Witness ==
    /\ call.done
    /\ EndsWithPdf(call.file_path)
    /\ call.lib = [open |-> NoExc,
                   pages |-> <<PageText(<<>>), PageText(<<"a", " ">>)>>]
    /\ call.result = <<ScannedPlaceholder, "\n", "a">>

\* C3 as stated: for a scanned PDF (every page without a text layer) and for
\* an image file, opened or not, the result is one fixed placeholder string
\* (either of the two literals of the source is taken for it).
C3_OnePlaceholder ==
    (call.done /\ ( \/ ~EndsWithPdf(call.file_path)
                    \/ (ReadOk(call.lib) /\ Scanned(call.lib)) )) =>
        call.result \in {<<ScannedPlaceholder>>, <<ImagePlaceholder>>}

\* C3, amended: for a scanned PDF read without error the result is the scanned
\* page placeholder once per page, a newline between them, whatever the pages
\* hold; for an image that opens it is the image placeholder; for an image
\* that does not open it is "Error reading image:" and the message.
C3_PlaceholderPerPage ==
    call.done =>
        /\ (EndsWithPdf(call.file_path) /\ ReadOk(call.lib) /\ Scanned(call.lib)) =>
              /\ Len(call.result) = 2 * Len(call.lib.pages) - 1
              /\ \A i \in 1..Len(call.result) :
                    call.result[i] = IF i % 2 = 1 THEN ScannedPlaceholder ELSE "\n"
        /\ (~EndsWithPdf(call.file_path) /\ ~call.lib.open.raised) =>
              call.result = <<ImagePlaceholder>>
        /\ (~EndsWithPdf(call.file_path) /\ call.lib.open.raised) =>
              /\ Head(call.result) = "Error reading image:"
              /\ IsTrimOf(call.result,
                          <<"Error reading image:", " ">> \o call.lib.open.msg)

\* A scanned PDF of two pages.
C3_Witness ==
    /\ call.done
    /\ EndsWithPdf(call.file_path)
    /\ call.lib = [open |-> NoExc, pages |-> <<PageText(<<>>), PageText(<<>>)>>]
    /\ call.result = <<ScannedPlaceholder, "\n", ScannedPlaceholder>>

\* C4: a press with no uploaded file and a text input that is empty or all
\* whitespace sends nothing to the remote model and shows the warning; and a
\* press that shows the warning has sent nothing.
C4_EmptyInputWarns ==
    run.pressed =>
        /\ (~run.has_file /\ \A i \in 1..Len(run.text_input) : IsSpace(run.text_input[i])) =>
              /\ run.warning
              /\ run.answer.calls = 0
              /\ ~run.invoked
        /\ run.warning => (run.answer.calls = 0 /\ ~run.invoked)

\* A press with a blank in the text area and no file.
C4_Witness ==
    /\ run.pressed
    /\ ~run.has_file
    /\ run.text_input = <<" ">>
    /\ run.warning
    /\ remoteCalls = 0

\* C5: when extract_json_from_text has returned a string, the press ends
\* without an exception and shows exactly one thing: the decoded object if
\* the string decodes as JSON, otherwise that same string as raw text.
C5_DisplayFallsBack ==
    (run.pressed /\ run.invoked /\ ~run.answer.raised) =>
        /\ run.crashed = "none"
        /\ run.shown.json # run.shown.text
        /\ JsonLoads(run.answer.value).ok =>
              (run.shown.json /\ run.shown.val = JsonLoads(run.answer.value).val)
        /\ ~JsonLoads(run.answer.value).ok =>
              (run.shown.text /\ run.shown.raw = run.answer.value)

\* The model answered with a fenced block, which is not JSON.
C5_Witness ==
    /\ run.pressed
    /\ run.answer.value = <<"~~~json", "\n", "{", "}", "\n", "~~~">>
    /\ run.shown.text
    /\ run.shown.raw = run.answer.value

\* C6: every press whose text to process is non-empty sends exactly one
\* request to the remote model, whatever the presses before it did.
C6_OneCallPerPress ==
    [][(presses' = presses + 1 /\ run'.extracted_text # <<>>) =>
          remoteCalls' = remoteCalls + 1]_vars

\* C7: when opening or reading the uploaded file raises, the press goes on:
\* the extracted text is "Error reading PDF:" or "Error reading image:" and
\* the message (trimmed), it is not empty, and it is what is sent on to
\* structured extraction.
C7_ReadErrorBecomesText ==
    (run.pressed /\ run.has_file /\ run.fs = "ok" /\ ~ReadOk(run.lib)) =>
        LET e == IF run.lib.open.raised THEN run.lib.open
                 ELSE run.lib.pages[CHOOSE i \in 1..Len(run.lib.pages) :
                                       run.lib.pages[i].raised]
            prefix == IF EndsWithPdf(run.file.name)
                      THEN "Error reading PDF:" ELSE "Error reading image:"
        IN  /\ run.extract_ran
            /\ run.extracted_text # <<>>
            /\ IsTrimOf(run.extracted_text, <<prefix, " ">> \o e.msg)
            /\ run.crashed # "write"
            /\ ~run.warning
            /\ run.invoked
            /\ run.arg = run.extracted_text

\* The second page of a PDF raises after the first gave its text.
C7_Witness ==
    /\ run.pressed
    /\ run.lib.pages = <<PageText(<<"a">>), PageRaise(<<"timeout">>)>>
    /\ run.extracted_text = <<"Error reading PDF:", " ", "timeout">>
    /\ run.answer.calls = 1

\* C8: with the key unset or empty the script halts at startup and nothing
\* is ever extracted, written or sent; with the key set it does not halt;
\* and no press ends in an uncaught exception.
C8_OnlyMissingKeyIsFatal ==
    /\ (phase # "boot") =>
          ((API_KEY \in {KeyUnset, ""}) <=> (phase = "halted"))
    /\ (phase = "halted") =>
          (run = NoRun /\ remoteCalls = 0 /\ \A n \in Names : uploads[n] = Absent)
    /\ run.crashed = "none"

\* C9 as stated, on the presses that end without an uncaught exception:
\* with a file uploaded or a non-blank text entered, structured extraction
\* is invoked.
C9_AlwaysInvoked ==
    (run.pressed /\ run.crashed = "none"
       /\ (run.has_file \/ ~IsTrimOf(<<>>, run.text_input))) =>
        run.invoked

\* C9, amended: a press gets to structured extraction exactly when the
\* upload write (if any) succeeded and the text to process is not empty; the
\* text to process, and the argument, is the text extracted from the file if
\* one was uploaded and the trimmed text input otherwise; text extraction
\* runs exactly for a file that was written.
C9_InvokedOnNonEmptyText ==
    run.pressed =>
        LET past == ~(run.has_file /\ run.fs # "ok")
        IN  /\ run.invoked <=> (past /\ run.extracted_text # <<>>)
            /\ run.invoked => (run.arg = run.extracted_text
                               /\ (run.answer.calls = 1 => run.answer.sent = run.arg))
            /\ (past /\ run.has_file) =>
                  run.extracted_text = extract_text_from_pdf(run.file.name, run.lib)
            /\ (~run.has_file) => IsTrimOf(run.extracted_text, run.text_input)
            /\ run.extract_ran <=> (past /\ run.has_file)
            /\ (past /\ run.extracted_text = <<>>) => run.warning

\* A file and a text together: the file's text is what is sent.
C9_Witness ==
    /\ run.pressed
    /\ run.has_file
    /\ run.text_input = <<" ", "b", "\n">>
    /\ run.invoked
    /\ run.answer.sent = <<"a">>

====
